---- MODULE Spec2Model ----
(***************************************************************************)
(* A model of the sweep engine and the builder facade of truck-modeling    *)
(* (src/truck-modeling/src/sweep.rs, src/truck-modeling/src/builder.rs).   *)
(*                                                                         *)
(* Topological cells are handles: a record with the id of the cell it      *)
(* refers to, the payload of that cell, and (for edges and faces) the      *)
(* sense of the handle.  Fresh ids are drawn from the counter nextId.      *)
(* Every constructing operator takes the counter n and returns a record    *)
(* [val |-> the constructed cell, n |-> the counter afterwards].           *)
(***************************************************************************)
EXTENDS Integers, Sequences, FiniteSets, TLC

VARIABLES nextId, elem, prev, call

vars == <<nextId, elem, prev, call>>

(***************************************************************************)
(* Bounds of the model.                                                    *)
(***************************************************************************)
MaxWireLen == 3
MaxWires == 2
\* the faces pushed to a shell
MaxPushed == 1

(***************************************************************************)
(* Sequence helpers.                                                       *)
(***************************************************************************)
RECURSIVE Flatten(_)
Flatten(ss) == IF ss = <<>> THEN <<>> ELSE Head(ss) \o Flatten(Tail(ss))

Range(s) == {s[i] : i \in 1..Len(s)}

\* the position of the first occurrence of x in the sequence of integers s
FirstIndex(s, x) == CHOOSE i \in 1..Len(s) : s[i] = x /\ \A j \in 1..(i - 1) : s[j] # x

\* the sequence of integers s without repetitions, in order of first occurrence
RECURSIVE Dedup(_)
Dedup(s) ==
    IF s = <<>> THEN <<>>
    ELSE LET d == Dedup(SubSeq(s, 1, Len(s) - 1))
             x == s[Len(s)]
         IN  IF x \in Range(d) THEN d ELSE Append(d, x)

Abs(x) == IF x < 0 THEN -x ELSE x

(***************************************************************************)
(* Topology primitives (truck-topology): handles and their accessors.      *)
(***************************************************************************)
NewVertex(id, pt) == [id |-> id, pt |-> pt]

\* Edge::new(v0, v1, curve): a forward handle on a fresh edge
NewEdge(id, v0, v1, curve) == [id |-> id, v0 |-> v0, v1 |-> v1, curve |-> curve, ori |-> TRUE]

EdgeFront(e) == IF e.ori THEN e.v0 ELSE e.v1
EdgeBack(e) == IF e.ori THEN e.v1 ELSE e.v0
EdgeInverse(e) == [e EXCEPT !.ori = ~e.ori]

WireInverse(w) == [i \in 1..Len(w) |-> EdgeInverse(w[Len(w) + 1 - i])]

\* back of edge i is the front of edge i+1
WireContinuous(w) == \A i \in 1..(Len(w) - 1) : EdgeBack(w[i]).id = EdgeFront(w[i + 1]).id
WireClosed(w) == w = <<>> \/ EdgeFront(w[1]).id = EdgeBack(w[Len(w)]).id
\* no vertex is the front of two edges of the wire
WireSimple(w) == \A i, j \in 1..Len(w) : i # j => EdgeFront(w[i]).id # EdgeFront(w[j]).id

WireVertexIds(w) == {w[i].v0.id : i \in 1..Len(w)} \cup {w[i].v1.id : i \in 1..Len(w)}
DisjointWires(ws) ==
    \A i, j \in 1..Len(ws) : i # j => WireVertexIds(ws[i]) \cap WireVertexIds(ws[j]) = {}

\* Face::new(boundaries, surface): a forward handle on a fresh face
NewFace(id, bnd, surf) == [id |-> id, bnd |-> bnd, surf |-> surf, ori |-> TRUE]

FaceInverse(f) == [f EXCEPT !.ori = ~f.ori]
\* Face::boundaries: the boundary wires in the sense of the handle
Boundaries(f) == IF f.ori THEN f.bnd ELSE [i \in 1..Len(f.bnd) |-> WireInverse(f.bnd[i])]

\* what Face::try_new checks of the boundary wires
ValidBoundaries(ws) ==
    /\ \A i \in 1..Len(ws) : ws[i] # <<>> /\ WireClosed(ws[i]) /\ WireSimple(ws[i])
    /\ DisjointWires(ws)

\* every edge handle referenced by the faces of a shell, in the faces' senses
ShellEdges(shell) == Flatten([i \in 1..Len(shell) |-> Flatten(Boundaries(shell[i]))])
EdgeIds(es) == {es[i].id : i \in 1..Len(es)}
RefsOf(es, id) == {i \in 1..Len(es) : es[i].id = id}

\* ShellCondition::Closed: every edge is referenced exactly twice, once in
\* each sense
ShellClosed(shell) ==
    LET es == ShellEdges(shell)
    IN  \A id \in EdgeIds(es) :
            /\ Cardinality(RefsOf(es, id)) = 2
            /\ \E i, j \in RefsOf(es, id) : es[i].ori # es[j].ori

(***************************************************************************)
(* The payload functions of a sweep: a record m stands for the five        *)
(* closures (point_mapping, curve_mapping, surface_mapping,                *)
(* connect_points, connect_curves).  m.kind = "usize" are the closures of  *)
(* the doctests of sweep.rs on integer payloads:                           *)
(*   |i| i + dp, |j| j + dc, |s| s + ds, |i, j| i * kp + j,                *)
(*   |i, j| i * kc + j.                                                    *)
(***************************************************************************)
NoMaps == [kind |-> "none"]

UsizeMaps ==
    { [kind |-> "usize", dp |-> 2, dc |-> 100, ds |-> 0, kp |-> 10, kc |-> 1],
      [kind |-> "usize", dp |-> 2, dc |-> 22, ds |-> 0, kp |-> 10, kc |-> 100],
      [kind |-> "usize", dp |-> 4, dc |-> 44, ds |-> 3333, kp |-> 10, kc |-> 100],
      [kind |-> "usize", dp |-> 0, dc |-> 0, ds |-> 0, kp |-> 0, kc |-> 0] }

(***************************************************************************)
(* The geometry of the builder.  Angles are counted in units of pi/8.  A   *)
(* point is a lattice point (x, y, z) turned about the axis of rotation,   *)
(* which is parallel to the y axis, by a further a units, 0 <= a < 4: the  *)
(* quarter turns of a rotation act on the lattice, the rest is kept in a.  *)
(* Lattice coordinates are even, so that the midpoint of a line is a       *)
(* lattice point.                                                          *)
(***************************************************************************)
PI == 8

Pt(x, y, z) == [x |-> x, y |-> y, z |-> z, a |-> 0]
Origin == Pt(0, 0, 0)
unit_y == <<0, 1, 0>>

VecNeg(v) == <<-v[1], -v[2], -v[3]>>
PtSub(p, q) == <<p.x - q.x, p.y - q.y, p.z - q.z>>
Cross(u, v) ==
    <<u[2] * v[3] - u[3] * v[2], u[3] * v[1] - u[1] * v[3], u[1] * v[2] - u[2] * v[1]>>
so_small(v) == v = <<0, 0, 0>>

\* a quarter turn about the y axis, q times
RECURSIVE QuarterTurns(_, _)
QuarterTurns(d, q) == IF q = 0 THEN d ELSE QuarterTurns(<<d[2], -d[1]>>, q - 1)

\* the rotation T(origin) * R(axis, angle) * T(-origin) applied to a point
Rotated(p, origin, axis, angle) ==
    IF p.x = origin.x /\ p.z = origin.z THEN p
    ELSE LET total == p.a + axis[2] * angle
             d == QuarterTurns(<<p.x - origin.x, p.z - origin.z>>, (total \div 4) % 4)
         IN  [x |-> origin.x + d[1], y |-> p.y, z |-> origin.z + d[2], a |-> total % 4]

\* Curve::Line(Line(p, q))
Line(p, q) == [k |-> "Line", p |-> p, q |-> q]
\* geom_impls::circle_arc(pt, origin, axis, angle): the arc from pt about the axis
circle_arc(p, origin, axis, angle) ==
    [k |-> "Arc", p |-> p, o |-> origin, axis |-> axis, ang |-> angle]

\* Curve::IntersectionCurve: the intersection of two surfaces, run from p to q
IntersectionCurve(p, q) == [k |-> "IntersectionCurve", p |-> p, q |-> q]

CurveFront(c) == c.p
CurveBack(c) == IF c.k = "Arc" THEN Rotated(c.p, c.o, c.axis, c.ang) ELSE c.q
CurveInverse(c) ==
    IF c.k = "Arc" THEN circle_arc(CurveBack(c), c.o, c.axis, -c.ang)
    ELSE [c EXCEPT !.p = c.q, !.q = c.p]

\* RevolutedCurve::by_revolution(curve, origin, axis)
by_revolution(c, origin, axis) ==
    [k |-> "RevolutedCurve", c |-> c, o |-> origin, axis |-> axis, inv |-> FALSE]
SurfaceInverse(s) == [s EXCEPT !.inv = ~s.inv]

\* the closures partial_rsweep and whole_rsweep hand to the sweep
RotationMaps(origin, axis, angle) ==
    [kind |-> "rsweep", o |-> origin, axis |-> axis, ang |-> angle]

\* the closures tsweep hands to the sweep
TranslationMaps(vector) == [kind |-> "tsweep", v |-> vector]

\* Matrix4::from_translation(vector) applied to a point
Translated(p, v) == [p EXCEPT !.x = @ + v[1], !.y = @ + v[2], !.z = @ + v[3]]

\* BSplineSurface::homotopy of two curves, as a rational surface
homotopy(c, d) == [k |-> "NURBSSurface", c0 |-> c, c1 |-> d, inv |-> FALSE]

\* what a closure leaves in place of a value when it panics
Panicked(msg) == [k |-> "panic", msg |-> msg]

MapPt(m, p) ==
    IF m.kind = "usize" THEN p + m.dp
    ELSE IF m.kind = "tsweep" THEN Translated(p, m.v)
    ELSE Rotated(p, m.o, m.axis, m.ang)
MapCurve(m, c) ==
    IF m.kind = "usize" THEN c + m.dc
    ELSE IF c.k \in {"Line", "IntersectionCurve"}
    THEN [c EXCEPT !.p = MapPt(m, c.p), !.q = MapPt(m, c.q)]
    ELSE IF m.kind = "tsweep" THEN [c EXCEPT !.p = MapPt(m, c.p), !.o = MapPt(m, c.o)]
    ELSE [c EXCEPT !.p = MapPt(m, c.p)]
MapSurface(m, s) ==
    IF m.kind = "usize" THEN s + m.ds
    ELSE IF s.k = "RevolutedCurve"
    THEN [s EXCEPT !.c = MapCurve(m, s.c),
                   !.o = IF m.kind = "tsweep" THEN MapPt(m, s.o) ELSE s.o]
    ELSE IF s.k = "NURBSSurface"
    THEN [s EXCEPT !.c0 = MapCurve(m, s.c0), !.c1 = MapCurve(m, s.c1)]
    ELSE [s EXCEPT !.pts = [i \in 1..Len(s.pts) |-> MapPt(m, s.pts[i])]]
ConnectPoints(m, p, q) ==
    IF m.kind = "usize" THEN p * m.kp + q
    ELSE IF m.kind = "tsweep" THEN Line(p, q)
    ELSE circle_arc(p, m.o, m.axis, m.ang)
ConnectCurves(m, c, d) ==
    IF m.kind = "usize" THEN c * m.kc + d
    ELSE IF m.kind = "tsweep"
    THEN (IF c.k = "Line" /\ d.k = "Line"
          THEN [k |-> "Plane", pts |-> <<c.p, c.q, Translated(c.p, m.v)>>, inv |-> FALSE]
          ELSE IF c.k = "Arc" /\ d.k = "Arc" THEN homotopy(c, d)
          ELSE IF c.k = "IntersectionCurve" /\ d.k = "IntersectionCurve"
          THEN Panicked("not implemented")
          ELSE Panicked("internal error: entered unreachable code"))
    ELSE by_revolution(c, m.o, m.axis)

\* Edge::oriented_curve and Face::oriented_surface
oriented_curve(e) == IF e.ori THEN e.curve ELSE CurveInverse(e.curve)
oriented_surface(f) == IF f.ori THEN f.surf ELSE SurfaceInverse(f.surf)

(***************************************************************************)
(* Mapped (topo_impls): a copy of the cell with fresh ids and mapped       *)
(* payloads; cells shared in the original are shared in the copy.          *)
(***************************************************************************)
VertexMapped(v, m, n) == [val |-> NewVertex(n, MapPt(m, v.pt)), n |-> n + 1]

EdgeMapped(e, m, n) ==
    LET v0 == NewVertex(n, MapPt(m, e.v0.pt))
        v1 == NewVertex(n + 1, MapPt(m, e.v1.pt))
    IN  [val |-> [NewEdge(n + 2, v0, v1, MapCurve(m, e.curve)) EXCEPT !.ori = e.ori],
         n |-> n + 3]

\* the ids of the vertices of a wire in the order of Wire::vertex_iter
WireVertexSeq(w) ==
    Dedup(Flatten([i \in 1..Len(w) |-> <<EdgeFront(w[i]).id, EdgeBack(w[i]).id>>]))
WireEdgeSeq(w) == Dedup([i \in 1..Len(w) |-> w[i].id])

WireMapped(w, m, n) ==
    LET vs == WireVertexSeq(w)
        es == WireEdgeSeq(w)
        MV(v) == NewVertex(n + FirstIndex(vs, v.id) - 1, MapPt(m, v.pt))
        ME(e) == [id |-> n + Len(vs) + FirstIndex(es, e.id) - 1,
                  v0 |-> MV(e.v0), v1 |-> MV(e.v1),
                  curve |-> MapCurve(m, e.curve), ori |-> e.ori]
    IN  [val |-> [i \in 1..Len(w) |-> ME(w[i])], n |-> n + Len(vs) + Len(es)]

RECURSIVE WiresMapped(_, _, _)
WiresMapped(ws, m, n) ==
    IF ws = <<>> THEN [val |-> <<>>, n |-> n]
    ELSE LET Rest(h) == LET t == WiresMapped(Tail(ws), m, h.n)
                        IN  [val |-> <<h.val>> \o t.val, n |-> t.n]
         IN  Rest(WireMapped(Head(ws), m, n))

FaceMapped(f, m, n) ==
    LET Over(ws) == [val |-> [NewFace(ws.n, ws.val, MapSurface(m, f.surf))
                                 EXCEPT !.ori = f.ori],
                     n |-> ws.n + 1]
    IN  Over(WiresMapped(f.bnd, m, n))

(***************************************************************************)
(* Connect primitives (topo_impls).                                        *)
(***************************************************************************)
connect_vertices(v0, v1, m, n) ==
    [val |-> NewEdge(n, v0, v1, ConnectPoints(m, v0.pt, v1.pt)), n |-> n + 1]

connect_edges(e0, e1, m, n) ==
    LET surface == ConnectCurves(m, e0.curve, e1.curve)
        Quad(edge2, edge3) ==
            [val |-> NewFace(edge3.n,
                             <<<<e0, edge3.val, EdgeInverse(e1), EdgeInverse(edge2.val)>>>>,
                             surface),
             n |-> edge3.n + 1]
        Second(edge2) ==
            Quad(edge2, connect_vertices(EdgeBack(e0), EdgeBack(e1), m, edge2.n))
    IN  Second(connect_vertices(EdgeFront(e0), EdgeFront(e1), m, n))

\* the memoization table: a sequence of bridges, looked up by the ids of the
\* two vertices bridged
Memo(vemap, v0, v1) == {i \in 1..Len(vemap) : vemap[i].v0.id = v0.id /\ vemap[i].v1.id = v1.id}

Bridge(vemap, v0, v1, m, n) ==
    IF Memo(vemap, v0, v1) # {}
    THEN [val |-> vemap[CHOOSE i \in Memo(vemap, v0, v1) : TRUE], n |-> n, vemap |-> vemap]
    ELSE LET Noted(e) == [val |-> e.val, n |-> e.n, vemap |-> Append(vemap, e.val)]
         IN  Noted(connect_vertices(v0, v1, m, n))

sub_connect_wires(e0, e1, m, n, vemap) ==
    LET surface == ConnectCurves(m, e0.curve, e1.curve)
        Quad(edge2, edge3) ==
            [val |-> NewFace(edge3.n,
                             <<<<e0, edge3.val, EdgeInverse(e1), EdgeInverse(edge2.val)>>>>,
                             surface),
             n |-> edge3.n + 1, vemap |-> edge3.vemap]
        Second(edge2) ==
            Quad(edge2, Bridge(edge2.vemap, EdgeBack(e0), EdgeBack(e1), m, edge2.n))
    IN  Second(Bridge(vemap, EdgeFront(e0), EdgeFront(e1), m, n))

RECURSIVE ConnectFrom(_, _, _, _, _, _)
ConnectFrom(w0, w1, m, n, vemap, i) ==
    IF i > Len(w0) \/ i > Len(w1) THEN [val |-> <<>>, n |-> n]
    ELSE LET Rest(f) == LET r == ConnectFrom(w0, w1, m, f.n, f.vemap, i + 1)
                        IN  [val |-> <<f.val>> \o r.val, n |-> r.n]
         IN  Rest(sub_connect_wires(w0[i], w1[i], m, n, vemap))

connect_wires(w0, w1, m, n) == ConnectFrom(w0, w1, m, n, <<>>, 1)

connect_raw_wires(es0, es1, m, n) == ConnectFrom(es0, es1, m, n, <<>>, 1)

(***************************************************************************)
(* The sweep engine (sweep.rs).                                            *)
(***************************************************************************)
\* a slip: the bridge is drawn from the mapped vertex back to the vertex
Vertex_sweep_reversed(v, m, n) ==
    LET Bridged(v1) == connect_vertices(v1.val, v, m, v1.n)
    IN  Bridged(VertexMapped(v, m, n))

Vertex_sweep(v, m, n) ==
    LET Bridged(v1) == connect_vertices(v, v1.val, m, v1.n)
    IN  Bridged(VertexMapped(v, m, n))

\* a slip: the edge and its image change places
Edge_sweep_swapped(e, m, n) ==
    LET Connected(edge) == connect_edges(edge.val, e, m, edge.n)
    IN  Connected(EdgeMapped(e, m, n))

\* a slip: the bridge between the fronts is created from the front of the
\* image back to the front of the edge and pushed as it is
Edge_sweep_backward_bridge(e, m, n) ==
    LET Quad(e1, edge2, edge3) ==
            [val |-> NewFace(edge3.n,
                             <<<<e, edge3.val, EdgeInverse(e1), edge2.val>>>>,
                             ConnectCurves(m, e.curve, e1.curve)),
             n |-> edge3.n + 1]
        Second(e1, edge2) ==
            Quad(e1, edge2, connect_vertices(EdgeBack(e), EdgeBack(e1), m, edge2.n))
        Connected(edge) ==
            Second(edge.val, connect_vertices(EdgeFront(edge.val), EdgeFront(e), m, edge.n))
    IN  Connected(EdgeMapped(e, m, n))

Edge_sweep(e, m, n) ==
    LET Connected(edge) == connect_edges(e, edge.val, m, edge.n)
    IN  Connected(EdgeMapped(e, m, n))

\* a slip: every pair of edges is connected on its own, without the table
RECURSIVE EachEdgeConnected(_, _, _, _, _)
EachEdgeConnected(w0, w1, m, n, i) ==
    IF i > Len(w0) THEN [val |-> <<>>, n |-> n]
    ELSE LET Rest(f) == LET r == EachEdgeConnected(w0, w1, m, f.n, i + 1)
                        IN  [val |-> <<f.val>> \o r.val, n |-> r.n]
         IN  Rest(connect_edges(w0[i], w1[i], m, n))

Wire_sweep_unshared(w, m, n) ==
    LET Connected(wire) == EachEdgeConnected(w, wire.val, m, wire.n, 1)
    IN  Connected(WireMapped(w, m, n))

Wire_sweep(w, m, n) ==
    LET Connected(wire) == connect_wires(w, wire.val, m, wire.n)
    IN  Connected(WireMapped(w, m, n))

\* a slip: the face itself is pushed, not its inverse
Face_sweep_floor_kept(f, m, n) ==
    LET Shell(seiling, sides) ==
            [val |-> <<<<f>> \o sides.val \o <<seiling.val>>>>, n |-> sides.n]
        Sides(seiling) ==
            Shell(seiling, connect_raw_wires(Flatten(Boundaries(f)),
                                             Flatten(Boundaries(seiling.val)), m, seiling.n))
    IN  Sides(FaceMapped(f, m, n))

\* a slip: the ceiling is pushed before the side faces
Face_sweep_ceiling_first(f, m, n) ==
    LET Shell(seiling, sides) ==
            [val |-> <<<<FaceInverse(f)>> \o <<seiling.val>> \o sides.val>>, n |-> sides.n]
        Sides(seiling) ==
            Shell(seiling, connect_raw_wires(Flatten(Boundaries(f)),
                                             Flatten(Boundaries(seiling.val)), m, seiling.n))
    IN  Sides(FaceMapped(f, m, n))

Face_sweep(f, m, n) ==
    LET Shell(seiling, sides) ==
            [val |-> <<<<FaceInverse(f)>> \o sides.val \o <<seiling.val>>>>, n |-> sides.n]
        Sides(seiling) ==
            Shell(seiling, connect_raw_wires(Flatten(Boundaries(f)),
                                             Flatten(Boundaries(seiling.val)), m, seiling.n))
    IN  Sides(FaceMapped(f, m, n))

(***************************************************************************)
(* Shell::sweep, lines 247-293.  The methods of truck-topology it calls    *)
(* (connected_components, mapped, extract_boundaries, Solid::try_new) are  *)
(* modelled from their contracts.                                          *)
(***************************************************************************)
FaceVertexIds(f) == WireVertexIds(Flatten(f.bnd))

\* the faces of the shell reachable from the faces S through shared vertices
RECURSIVE Grown(_, _)
Grown(shell, S) ==
    LET Next1(T) == IF T = S THEN S ELSE Grown(shell, T)
    IN  Next1(S \cup {j \in 1..Len(shell) :
                        \E i \in S : FaceVertexIds(shell[i]) \cap FaceVertexIds(shell[j]) # {}})

\* the faces of the shell at the positions C, in the order of the shell
FacesAt(shell, C) ==
    [k \in 1..Cardinality(C) |->
        shell[CHOOSE i \in C : Cardinality({j \in C : j < i}) = k - 1]]

RECURSIVE ComponentsFrom(_, _)
ComponentsFrom(shell, left) ==
    IF left = {} THEN <<>>
    ELSE LET Split(C) == <<FacesAt(shell, C)>> \o ComponentsFrom(shell, left \ C)
         IN  Split(Grown(shell, {CHOOSE i \in left : \A j \in left : i <= j}))

\* Shell::connected_components: the components in the order of their first
\* faces
connected_components(shell) == ComponentsFrom(shell, 1..Len(shell))

\* Shell::mapped: a copy on fresh vertices, edges and faces; what the faces
\* of the shell share, their copies share.  The fresh identities follow the
\* order of the identities they copy.
ShellMapped(shell, m, n) ==
    LET es == ShellEdges(shell)
        vids == WireVertexIds(es)
        eids == EdgeIds(es)
        MV(v) == NewVertex(n + Cardinality({x \in vids : x < v.id}), MapPt(m, v.pt))
        ME(e) == [id |-> n + Cardinality(vids) + Cardinality({x \in eids : x < e.id}),
                  v0 |-> MV(e.v0), v1 |-> MV(e.v1),
                  curve |-> MapCurve(m, e.curve), ori |-> e.ori]
        MF(i) == [id |-> n + Cardinality(vids) + Cardinality(eids) + i - 1,
                  bnd |-> [w \in 1..Len(shell[i].bnd) |->
                              [j \in 1..Len(shell[i].bnd[w]) |-> ME(shell[i].bnd[w][j])]],
                  surf |-> MapSurface(m, shell[i].surf),
                  ori |-> shell[i].ori]
    IN  [val |-> [i \in 1..Len(shell) |-> MF(i)],
         n |-> n + Cardinality(vids) + Cardinality(eids) + Len(shell)]

\* the edges of shell.extract_boundaries(), wire after wire: the edges only
\* one face of the shell holds, in the sense that face holds them
BoundaryEdges(shell) ==
    LET Once(es) == SelectSeq(es, LAMBDA e : Cardinality(RefsOf(es, e.id)) = 1)
    IN  Once(ShellEdges(shell))

ShellConnected(shell) == shell = <<>> \/ Grown(shell, {1}) = 1..Len(shell)

\* Solid::try_new(boundaries)
Solid_try_new(shells) ==
    IF \E i \in 1..Len(shells) : shells[i] = <<>> THEN [kind |-> "error", val |-> "EmptyShell"]
    ELSE IF \E i \in 1..Len(shells) : ~ShellConnected(shells[i])
    THEN [kind |-> "error", val |-> "NotConnected"]
    ELSE IF \E i \in 1..Len(shells) : ~ShellClosed(shells[i])
    THEN [kind |-> "error", val |-> "NotClosedShell"]
    ELSE [kind |-> "solid", val |-> shells]

\* the closure of lines 273-290 on one component
SweepComponent(shell, m, n) ==
    LET Solid(seiling, sides) ==
            [val |-> Solid_try_new(<<[i \in 1..Len(shell) |-> FaceInverse(shell[i])]
                                      \o sides.val \o seiling.val>>),
             n |-> sides.n]
        Sides(seiling) ==
            Solid(seiling, connect_wires(BoundaryEdges(shell), BoundaryEdges(seiling.val),
                                         m, seiling.n))
    IN  Sides(ShellMapped(shell, m, n))

RECURSIVE SweepComponents(_, _, _)
SweepComponents(comps, m, n) ==
    IF comps = <<>> THEN [val |-> <<>>, n |-> n]
    ELSE LET Cons(h, t) == [val |-> <<h.val>> \o t.val, n |-> t.n]
             Rest(h) == Cons(h, SweepComponents(Tail(comps), m, h.n))
         IN  Rest(SweepComponent(Head(comps), m, n))

\* a slip: the first component that forms no solid fails the whole call
Shell_sweep_all_or_nothing(shell, m, n) ==
    LET Failed(r) == {i \in 1..Len(r.val) : r.val[i].kind = "error"}
        Spread(r) ==
            IF Failed(r) = {} THEN r
            ELSE [r EXCEPT !.val = [i \in 1..Len(r.val) |->
                                       r.val[CHOOSE j \in Failed(r) : \A k \in Failed(r) : j <= k]]]
    IN  Spread(SweepComponents(connected_components(shell), m, n))

Shell_sweep(shell, m, n) == SweepComponents(connected_components(shell), m, n)

(***************************************************************************)
(* MultiSweep and ClosedSweep (topo_impls) of a vertex and of a wire: d    *)
(* stages, each connecting the element to its image; the closed sweep      *)
(* takes the element it started from as the ceiling of its last stage.     *)
(***************************************************************************)
RECURSIVE VertexStages(_, _, _, _, _, _)
VertexStages(v, v0, m, d, closed, n) ==
    IF d = 0 THEN [val |-> <<>>, n |-> n]
    ELSE IF d = 1 /\ closed
    THEN LET Only(e) == [val |-> <<e.val>>, n |-> e.n]
         IN  Only(connect_vertices(v, v0, m, n))
    ELSE LET Rest(v1, e) == LET r == VertexStages(v1.val, v0, m, d - 1, closed, e.n)
                            IN  [val |-> <<e.val>> \o r.val, n |-> r.n]
             Stage(v1) == Rest(v1, connect_vertices(v, v1.val, m, v1.n))
         IN  Stage(VertexMapped(v, m, n))

RECURSIVE WireStages(_, _, _, _, _, _)
WireStages(w, w0, m, d, closed, n) ==
    IF d = 0 THEN [val |-> <<>>, n |-> n]
    ELSE IF d = 1 /\ closed
    THEN connect_wires(w, w0, m, n)
    ELSE LET Rest(w1, fs) == LET r == WireStages(w1.val, w0, m, d - 1, closed, fs.n)
                             IN  [val |-> fs.val \o r.val, n |-> r.n]
             Stage(w1) == Rest(w1, connect_wires(w, w1.val, m, w1.n))
         IN  Stage(WireMapped(w, m, n))

\* x is [kind |-> "vertex", val |-> a vertex] or [kind |-> "wire", val |-> a wire];
\* the result is a wire or a shell
multi_sweep(x, m, d, n) ==
    IF x.kind = "vertex" THEN VertexStages(x.val, x.val, m, d, FALSE, n)
    ELSE WireStages(x.val, x.val, m, d, FALSE, n)

closed_sweep(x, m, d, n) ==
    IF x.kind = "vertex" THEN VertexStages(x.val, x.val, m, d, TRUE, n)
    ELSE WireStages(x.val, x.val, m, d, TRUE, n)

(***************************************************************************)
(* The builder (builder.rs).                                               *)
(***************************************************************************)
\* the surfaces the curve connector made for the cell swept from x
ConnectedSurfaces(x, val) ==
    IF x.kind = "vertex" THEN {}
    ELSE IF x.kind = "edge" THEN {val.surf}
    ELSE IF x.kind = "wire" THEN {val[i].surf : i \in 1..Len(val)}
    ELSE {val[1][i].surf : i \in 2..(Len(val[1]) - 1)}

\* a slip: of a face only the boundary wire is swept, without floor and ceiling
tsweep_boundary_only(x, vector, n) ==
    LET m == TranslationMaps(vector)
        Wrapped(r) == [kind |-> "ok",
                       val |-> IF x.kind = "face" THEN <<r.val>> ELSE r.val, n |-> r.n]
    IN  Wrapped(IF x.kind = "vertex" THEN Vertex_sweep(x.val, m, n)
                ELSE IF x.kind = "edge" THEN Edge_sweep(x.val, m, n)
                ELSE IF x.kind = "wire" THEN Wire_sweep(x.val, m, n)
                ELSE Wire_sweep(Boundaries(x.val)[1], m, n))

\* tsweep, lines 389-413.  x is [kind |-> "vertex", "edge", "wire" or "face",
\* val |-> the cell]; the result is the swept cell, or kind "panic" with the
\* message when a closure panicked: the call then returns nothing.
tsweep(x, vector, n) ==
    LET m == TranslationMaps(vector)
        Unwound(r) ==
            IF \E s \in ConnectedSurfaces(x, r.val) : s.k = "panic"
            THEN [kind |-> "panic",
                  val |-> (CHOOSE s \in ConnectedSurfaces(x, r.val) : s.k = "panic").msg,
                  n |-> r.n]
            ELSE [kind |-> "ok", val |-> r.val, n |-> r.n]
    IN  Unwound(IF x.kind = "vertex" THEN Vertex_sweep(x.val, m, n)
                ELSE IF x.kind = "edge" THEN Edge_sweep(x.val, m, n)
                ELSE IF x.kind = "wire" THEN Wire_sweep(x.val, m, n)
                ELSE Face_sweep(x.val, m, n))

\* a slip: the sweep is made in one stage whatever the angle
partial_rsweep_one_stage(x, origin, axis, angle, n) ==
    multi_sweep(x, RotationMaps(origin, axis, angle), 1, n)

partial_rsweep(x, origin, axis, angle, n) ==
    LET division == IF Abs(angle) < PI THEN 1 ELSE 2
    IN  multi_sweep(x, RotationMaps(origin, axis, angle \div division), division, n)

\* a slip: the sweep is not closed
whole_rsweep_open(x, origin, axis, n) ==
    multi_sweep(x, RotationMaps(origin, axis, PI), 2, n)

whole_rsweep(x, origin, axis, n) ==
    closed_sweep(x, RotationMaps(origin, axis, PI), 2, n)

\* a slip: the comparisons with 2 pi are not strict
rsweep_nonstrict(x, origin, axis, angle, n) ==
    IF Abs(angle) <= 2 * PI THEN partial_rsweep(x, origin, axis, angle, n)
    ELSE IF angle > 0 THEN whole_rsweep(x, origin, axis, n)
    ELSE whole_rsweep(x, origin, VecNeg(axis), n)

rsweep(x, origin, axis, angle, n) ==
    IF Abs(angle) < 2 * PI THEN partial_rsweep(x, origin, axis, angle, n)
    ELSE IF angle > 0 THEN whole_rsweep(x, origin, axis, n)
    ELSE whole_rsweep(x, origin, VecNeg(axis), n)

\* curve.subs((t0 + t1) * 0.5), and the two parts curve.cut leaves and returns
CurveMid(c) ==
    IF c.k = "Line"
    THEN Pt((c.p.x + c.q.x) \div 2, (c.p.y + c.q.y) \div 2, (c.p.z + c.q.z) \div 2)
    ELSE Rotated(c.p, c.o, c.axis, c.ang \div 2)
CutFront(c) ==
    IF c.k = "Line" THEN Line(c.p, CurveMid(c)) ELSE [c EXCEPT !.ang = c.ang \div 2]
CutBack(c) ==
    IF c.k = "Line" THEN Line(CurveMid(c), c.q)
    ELSE [c EXCEPT !.p = CurveMid(c), !.ang = c.ang - (c.ang \div 2)]

\* cone, lines 184-195: the only edge of the wire is cut in two
SplitEdge(edge, n) ==
    LET v0 == EdgeFront(edge)
        v2 == EdgeBack(edge)
        curve == edge.curve
        v1 == NewVertex(n, CurveMid(curve))
    IN  [val |-> <<NewEdge(n + 1, v0, v1, CutFront(curve)), NewEdge(n + 2, v1, v2, CutBack(curve))>>,
         n |-> n + 3]

\* cone, lines 198-215: the faces on the first edge of the wire.  The loop
\* state is the shell, the apex edge of the previous slice, the counter and
\* whether every Edge::debug_new and Face::debug_new so far was given valid
\* arguments.
RECURSIVE FrontApex(_, _, _, _, _, _, _)
FrontApex(shell, wlen, closed, edge, i, n, ok) ==
    IF i >= Len(shell) \div wlen THEN [val |-> shell, n |-> n, ok |-> ok]
    ELSE LET idx == i * wlen + 1
             face == shell[idx]
             surface == oriented_surface(face)
             old_wire == Boundaries(face)[Len(face.bnd)]
             new_wire2 == <<edge, old_wire[2]>>
             last == closed /\ i + 1 = Len(shell) \div Len(new_wire2)
             new_edge == IF last THEN EdgeInverse(Boundaries(shell[1])[1][1])
                         ELSE NewEdge(n, EdgeFront(old_wire[3]), EdgeFront(new_wire2[1]),
                                      oriented_curve(old_wire[3]))
             n1 == IF last THEN n ELSE n + 1
             edge_ok == last \/ EdgeFront(old_wire[3]).id # EdgeFront(new_wire2[1]).id
             new_wire == Append(new_wire2, new_edge)
         IN  FrontApex([shell EXCEPT ![idx] = NewFace(n1, <<new_wire>>, surface)],
                       wlen, closed, EdgeInverse(new_edge), i + 1, n1 + 1,
                       ok /\ edge_ok /\ ValidBoundaries(<<new_wire>>))

\* cone, lines 217-235: the faces on the last edge of the wire
RECURSIVE BackApex(_, _, _, _, _, _, _)
BackApex(shell, wlen, closed, edge, i, n, ok) ==
    IF i >= Len(shell) \div wlen THEN [val |-> shell, n |-> n, ok |-> ok]
    ELSE LET idx == (i + 1) * wlen
             face == shell[idx]
             surface == oriented_surface(face)
             old_wire == Boundaries(face)[Len(face.bnd)]
             last == closed /\ i + 1 = Len(shell) \div wlen
             new_edge == IF last THEN EdgeInverse(Boundaries(shell[wlen])[1][1])
                         ELSE NewEdge(n, EdgeBack(edge), EdgeBack(old_wire[3]),
                                      oriented_curve(old_wire[3]))
             n1 == IF last THEN n ELSE n + 1
             edge_ok == last \/ EdgeBack(edge).id # EdgeBack(old_wire[3]).id
             new_wire == <<edge, new_edge, old_wire[4]>>
         IN  BackApex([shell EXCEPT ![idx] = NewFace(n1, <<new_wire>>, surface)],
                      wlen, closed, EdgeInverse(new_edge), i + 1, n1 + 1,
                      ok /\ edge_ok /\ ValidBoundaries(<<new_wire>>))

\* a slip: the wire is turned about the origin, not about its front point
cone_about_origin(wire0, axis, angle, n) ==
    LET closed == Abs(angle) >= 2 * PI
    IN  IF wire0 = <<>> THEN [val |-> <<>>, n |-> n, ok |-> TRUE]
        ELSE
        LET pt0 == EdgeFront(wire0[1]).pt
            pt1 == EdgeBack(wire0[Len(wire0)]).pt
            pt1_on_axis == so_small(Cross(PtSub(pt1, pt0), axis))
            Back(wire, front) ==
                IF pt1_on_axis
                THEN BackApex(front.val, Len(wire), closed,
                              Boundaries(front.val[Len(wire)])[1][1], 0, front.n, front.ok)
                ELSE front
            Front(wire, swept) ==
                Back(wire, FrontApex(swept.val, Len(wire), closed,
                                     Boundaries(swept.val[1])[1][1], 0, swept.n, TRUE))
            Swept(split) ==
                Front(split.val, rsweep([kind |-> "wire", val |-> split.val],
                                        Origin, axis, angle, split.n))
        IN  Swept(IF Len(wire0) = 1 /\ pt1_on_axis THEN SplitEdge(wire0[1], n)
                  ELSE [val |-> wire0, n |-> n])

cone(wire0, axis, angle, n) ==
    LET closed == Abs(angle) >= 2 * PI
    IN  IF wire0 = <<>> THEN [val |-> <<>>, n |-> n, ok |-> TRUE]
        ELSE
        LET pt0 == EdgeFront(wire0[1]).pt
            pt1 == EdgeBack(wire0[Len(wire0)]).pt
            pt1_on_axis == so_small(Cross(PtSub(pt1, pt0), axis))
            Back(wire, front) ==
                IF pt1_on_axis
                THEN BackApex(front.val, Len(wire), closed,
                              Boundaries(front.val[Len(wire)])[1][1], 0, front.n, front.ok)
                ELSE front
            Front(wire, swept) ==
                Back(wire, FrontApex(swept.val, Len(wire), closed,
                                     Boundaries(swept.val[1])[1][1], 0, swept.n, TRUE))
            Swept(split) ==
                Front(split.val, rsweep([kind |-> "wire", val |-> split.val],
                                        pt0, axis, angle, split.n))
        IN  Swept(IF Len(wire0) = 1 /\ pt1_on_axis THEN SplitEdge(wire0[1], n)
                  ELSE [val |-> wire0, n |-> n])

\* the control points of a curve, as points
ControlPoints(c) ==
    IF c.k = "Line" THEN <<c.p, c.q>>
    ELSE <<c.p, Rotated(c.p, c.o, c.axis, c.ang \div 2), CurveBack(c)>>

Dot(u, v) == u[1] * v[1] + u[2] * v[2] + u[3] * v[3]
Collinear(p, q, r) == so_small(Cross(PtSub(q, p), PtSub(r, p)))

\* Plane::new(origin, one_point, another_point)
Plane(o, p, q) == [k |-> "Plane", pts |-> <<o, p, q>>, inv |-> FALSE]

\* geom_impls::attach_plane(pts): the plane through the points, if there is
\* one and only one; the result is [some |-> BOOLEAN, plane |-> a plane]
attach_plane(pts) ==
    LET N == Len(pts)
        \* the points apart from the first, and the first of them
        apart == {j \in 1..N : pts[j] # pts[1]}
        second == CHOOSE j \in apart : \A j2 \in apart : j <= j2
        \* the points off the line through those two, and the first of them
        off == {k \in apart : ~Collinear(pts[1], pts[second], pts[k])}
        third == CHOOSE k \in off : \A k2 \in off : k <= k2
        nrm == Cross(PtSub(pts[second], pts[1]), PtSub(pts[third], pts[1]))
    IN  IF apart = {} \/ off = {} THEN [some |-> FALSE, plane |-> Plane(Origin, Origin, Origin)]
        ELSE IF \E i \in 1..N : Dot(nrm, PtSub(pts[i], pts[1])) # 0
        THEN [some |-> FALSE, plane |-> Plane(Origin, Origin, Origin)]
        ELSE [some |-> TRUE, plane |-> Plane(pts[1], pts[second], pts[third])]

\* Face::try_new(wires, surface)
Face_try_new(ws, surf, n) ==
    IF \E i \in 1..Len(ws) : ws[i] = <<>> THEN [kind |-> "error", val |-> "EmptyWire", n |-> n]
    ELSE IF \E i \in 1..Len(ws) : ~WireClosed(ws[i])
    THEN [kind |-> "error", val |-> "NotClosedWire", n |-> n]
    ELSE IF \E i \in 1..Len(ws) : ~WireSimple(ws[i])
    THEN [kind |-> "error", val |-> "NotSimpleWire", n |-> n]
    ELSE IF ~DisjointWires(ws) THEN [kind |-> "error", val |-> "NotDisjointWires", n |-> n]
    ELSE [kind |-> "face", val |-> NewFace(n, ws, surf), n |-> n + 1]

\* the errors of the builder: Error::WireNotInOnePlane and
\* Error::FromTopology(e), which the ? operator makes of an error e of
\* truck-topology
WireNotInOnePlane == [err |-> "WireNotInOnePlane", from |-> "none"]
FromTopology(e) == [err |-> "FromTopology", from |-> e]
Lifted(r) == IF r.kind = "error" THEN [r EXCEPT !.val = FromTopology(r.val)] ELSE r

\* the points try_attach_plane collects, lines 289-300
WirePoints(wires) ==
    Flatten([i \in 1..Len(Flatten(wires)) |->
                ControlPoints(oriented_curve(Flatten(wires)[i]))])

\* a slip: the wires are checked before the plane is fitted
try_attach_plane_closure_first(wires, n) ==
    LET Checked(plane, face) ==
            IF face.kind = "error" THEN face
            ELSE IF ~plane.some THEN [kind |-> "error", val |-> WireNotInOnePlane, n |-> n]
            ELSE face
        Fitted(plane) == Checked(plane, Lifted(Face_try_new(wires, plane.plane, n)))
    IN  Fitted(attach_plane(WirePoints(wires)))

\* a slip: the outcome of the plane fit is not looked at
try_attach_plane_fit_unchecked(wires, n) ==
    Lifted(Face_try_new(wires, attach_plane(WirePoints(wires)).plane, n))

try_attach_plane(wires, n) ==
    LET Fitted(plane) ==
            IF ~plane.some THEN [kind |-> "error", val |-> WireNotInOnePlane, n |-> n]
            ELSE Lifted(Face_try_new(wires, plane.plane, n))
    IN  Fitted(attach_plane(WirePoints(wires)))

(***************************************************************************)
(* The state: the element at hand (elem), the element the last operation   *)
(* was applied to (prev), and the last operation with its arguments (call).*)
(* elem.u tells the payload types of the element: "usize" for the integer  *)
(* payloads of the doctests of sweep.rs, "geom" for Point3, Curve and      *)
(* Surface of the builder.                                                 *)
(***************************************************************************)
None == [kind |-> "none", u |-> "none", val |-> <<>>]
NoCall == [op |-> "none", m |-> NoMaps, origin |-> Origin, axis |-> unit_y, angle |-> 0,
           ok |-> TRUE]

Init ==
    /\ nextId = 1
    /\ elem = None
    /\ prev = None
    /\ call = NoCall

\* Vertex::new(pt) on an integer payload
CallVertexNew ==
    /\ elem.kind = "none"
    /\ \E pt \in 1..2 :
        /\ elem' = [kind |-> "vertex", u |-> "usize", val |-> NewVertex(nextId, pt)]
        /\ nextId' = nextId + 1
        /\ prev' = elem
        /\ call' = [NoCall EXCEPT !.op = "Vertex::new"]

CallVertexSweep ==
    /\ elem.kind = "vertex" /\ elem.u = "usize"
    /\ \E m \in UsizeMaps :
        \E r \in {Vertex_sweep(elem.val, m, nextId)} :
            /\ elem' = [kind |-> "edge", u |-> elem.u, val |-> r.val]
            /\ nextId' = r.n
            /\ prev' = elem
            /\ call' = [NoCall EXCEPT !.op = "Vertex::sweep", !.m = m]

\* Edge::inverse / Face::inverse: the same cell in the other sense
CallInverse ==
    /\ elem.kind \in {"edge", "face"}
    /\ call.op # "inverse"
    /\ elem' = [elem EXCEPT !.val.ori = ~elem.val.ori]
    /\ prev' = elem
    /\ call' = [NoCall EXCEPT !.op = "inverse"]
    /\ UNCHANGED nextId

CallEdgeSweep ==
    /\ elem.kind = "edge" /\ elem.u = "usize"
    /\ \E m \in UsizeMaps :
        \E r \in {Edge_sweep(elem.val, m, nextId)} :
            /\ elem' = [kind |-> "face", u |-> elem.u, val |-> r.val]
            /\ nextId' = r.n
            /\ prev' = elem
            /\ call' = [NoCall EXCEPT !.op = "Edge::sweep", !.m = m]

\* The wires of the doctests: Wire::from(vec![Edge::new(..), ..]) over fresh
\* vertices; edge i runs from vertex i to vertex i + 1 (to vertex 1 when it
\* closes the wire); the edges in flips are built the other way round and
\* pushed inverted.
WireShapes ==
    {[len |-> l, closed |-> c, flips |-> fl] :
        l \in 1..MaxWireLen, c \in BOOLEAN, fl \in SUBSET (1..MaxWireLen)}

ShapeOk(sh) == sh.flips \subseteq 1..sh.len /\ (sh.closed => sh.len >= 2)

ShapeVertices(sh) == IF sh.closed THEN sh.len ELSE sh.len + 1

\* The points of the polylines drawn with builder::line:
\*   "apex"  the first point on the y axis, the others off it, all in a plane;
\*   "both"  as "apex", but the last point of an open polyline on the axis too;
\*   "off"   all points off the y axis, all in a plane;
\*   "lifted" the points of "off" in the parallel plane z = 2;
\*   "skew"  the points of the doctest of try_attach_plane: the first three in
\*           a plane, the fourth out of it.
Profiles == {"apex", "both", "off", "lifted", "skew"}

ProfilePoint(prof, i, nv) ==
    IF prof = "skew"
    THEN (IF i = 1 THEN Pt(0, 0, 0) ELSE IF i = 2 THEN Pt(2, 0, 0)
          ELSE IF i = 3 THEN Pt(0, 2, 0) ELSE Pt(0, 0, 2 * (i - 3)))
    ELSE IF prof = "both" /\ i = nv /\ i > 1 THEN Pt(0, 2 * nv, 0)
    ELSE Pt((IF prof \in {"off", "lifted"} THEN 2 ELSE 0) + 2 * (i \div 2),
            2 * ((i - 1) \div 2), IF prof = "lifted" THEN 2 ELSE 0)

\* builder::line(v0, v1) for the edge from p to q
LineCurve(i, p, q) == Line(p, q)

\* prof = "usize" are the integer payloads of the doctests of sweep.rs:
\* the point of vertex i is i, the curve of edge i is 90 + 10 * i
WirePoint(prof, i, nv) == IF prof = "usize" THEN i ELSE ProfilePoint(prof, i, nv)
WireCurve(prof, i, p, q) == IF prof = "usize" THEN 90 + 10 * i ELSE LineCurve(i, p, q)

WireFrom(sh, prof, n) ==
    LET nv == ShapeVertices(sh)
        V(i) == NewVertex(n + i - 1, WirePoint(prof, i, nv))
        A(i) == V(i)
        B(i) == IF i = nv THEN V(1) ELSE V(i + 1)
        E(i) == IF i \in sh.flips
                THEN EdgeInverse(NewEdge(n + nv + i - 1, B(i), A(i),
                                         WireCurve(prof, i, B(i).pt, A(i).pt)))
                ELSE NewEdge(n + nv + i - 1, A(i), B(i), WireCurve(prof, i, A(i).pt, B(i).pt))
    IN  [val |-> [i \in 1..sh.len |-> E(i)], n |-> n + nv + sh.len]

CallWireFrom ==
    /\ \/ elem.kind = "none"
       \/ elem.kind = "wires" /\ elem.u = "usize" /\ Len(elem.val) < MaxWires
    /\ \E sh \in WireShapes :
        /\ ShapeOk(sh)
        \* a third wire and any after it are built without inverted edges
        /\ Len(elem.val) >= 2 => sh.flips = {}
        /\ \E r \in {WireFrom(sh, "usize", nextId)} :
               /\ elem' = [kind |-> "wires", u |-> "usize", val |-> Append(elem.val, r.val)]
               /\ nextId' = r.n
        /\ prev' = elem
        /\ call' = [NoCall EXCEPT !.op = "Wire::from"]

CallWireSweep ==
    /\ elem.kind = "wires" /\ elem.u = "usize"
    /\ Len(elem.val) = 1
    /\ \E m \in UsizeMaps :
        \E r \in {Wire_sweep(elem.val[1], m, nextId)} :
            /\ elem' = [kind |-> "shell", u |-> elem.u, val |-> r.val]
            /\ nextId' = r.n
            /\ prev' = elem
            /\ call' = [NoCall EXCEPT !.op = "Wire::sweep", !.m = m]

\* Face::try_new(wires, surface) with the surface payload 1000
CallFaceNew ==
    /\ elem.kind = "wires" /\ elem.u = "usize"
    /\ \E r \in {Face_try_new(elem.val, 1000, nextId)} :
           /\ elem' = [kind |-> r.kind, u |-> elem.u, val |-> r.val]
           /\ nextId' = r.n
    /\ prev' = elem
    /\ call' = [NoCall EXCEPT !.op = "Face::try_new"]

CallFaceSweep ==
    /\ elem.kind = "face" /\ elem.u = "usize"
    /\ \E m \in UsizeMaps :
        \E r \in {Face_sweep(elem.val, m, nextId)} :
            /\ elem' = [kind |-> "solid", u |-> elem.u, val |-> r.val]
            /\ nextId' = r.n
            /\ prev' = elem
            /\ call' = [NoCall EXCEPT !.op = "Face::sweep", !.m = m]

\* Shell::from(vec![face]) and the boundary shell of a solid swept from a
\* face of one boundary wire
CallShellFrom ==
    /\ elem.u = "usize"
    /\ \/ /\ elem.kind = "face"
          /\ elem' = [elem EXCEPT !.kind = "shell", !.val = <<elem.val>>]
       \/ /\ elem.kind = "solid"
          /\ Len(elem.val[1][1].bnd) = 1
          /\ elem' = [elem EXCEPT !.kind = "shell", !.val = elem.val[1]]
    /\ prev' = elem
    /\ call' = [NoCall EXCEPT !.op = "Shell::from"]
    /\ UNCHANGED nextId

\* the surface payload of the faces pushed to a shell
PushedSurface == 5000

\* shell.push(face), the face a fresh one on a closed wire of two edges: it
\* shares no vertex with the faces of the shell
CallShellPush ==
    /\ elem.kind = "shell" /\ elem.u = "usize"
    /\ Cardinality({i \in 1..Len(elem.val) : elem.val[i].surf = PushedSurface}) < MaxPushed
    /\ \E r \in {WireFrom([len |-> 2, closed |-> TRUE, flips |-> {}], "usize", nextId)} :
           /\ elem' = [elem EXCEPT !.val = Append(@, NewFace(r.n, <<r.val>>, PushedSurface))]
           /\ nextId' = r.n + 1
    /\ prev' = elem
    /\ call' = [NoCall EXCEPT !.op = "Shell::push"]

\* shell[0].invert(): the first face of the shell in the other sense
CallShellInvert ==
    /\ elem.kind = "shell" /\ elem.u = "usize"
    /\ elem' = [elem EXCEPT !.val[1] = FaceInverse(@)]
    /\ prev' = elem
    /\ call' = [NoCall EXCEPT !.op = "Face::invert"]
    /\ UNCHANGED nextId

CallShellSweep ==
    /\ elem.kind = "shell" /\ elem.u = "usize"
    /\ \E m \in UsizeMaps :
        \E r \in {Shell_sweep(elem.val, m, nextId)} :
            /\ elem' = [kind |-> "solids", u |-> elem.u, val |-> r.val]
            /\ nextId' = r.n
            /\ prev' = elem
            /\ call' = [NoCall EXCEPT !.op = "Shell::sweep", !.m = m]

(***************************************************************************)
(* Calls of the builder.                                                   *)
(***************************************************************************)
\* builder::vertex(pt), on the axis or off it
CallBuilderVertex ==
    /\ elem.kind = "none"
    /\ \E pt \in {Pt(0, 0, 0), Pt(2, 0, 0)} :
        /\ elem' = [kind |-> "vertex", u |-> "geom", val |-> NewVertex(nextId, pt)]
        /\ nextId' = nextId + 1
        /\ prev' = elem
        /\ call' = [NoCall EXCEPT !.op = "builder::vertex"]

CallLines ==
    /\ \/ elem.kind = "none"
       \/ elem.kind = "wires" /\ elem.u = "geom" /\ Len(elem.val) < MaxWires
                              /\ call.op = "builder::line"
    /\ \E sh \in WireShapes, prof \in Profiles :
        /\ ShapeOk(sh)
        \* the wires after the first are drawn without inverted edges, a third
        \* wire and any after it in the plane
        /\ elem.kind = "wires" => sh.flips = {}
        /\ Len(elem.val) >= 2 => prof = "off"
        /\ \E r \in {WireFrom(sh, prof, nextId)} :
               /\ elem' = [kind |-> "wires", u |-> "geom", val |-> Append(elem.val, r.val)]
               /\ nextId' = r.n
        /\ prev' = elem
        /\ call' = [NoCall EXCEPT !.op = "builder::line"]

Angles == {-18, -16, -12, -8, -2, 2, 8, 12, 16, 18}
Axes == {unit_y, VecNeg(unit_y)}

\* every point of the wire is a lattice point
OnLattice(w) == \A i \in 1..Len(w) : w[i].v0.pt.a = 0 /\ w[i].v1.pt.a = 0

\* Edge::new(v0, v1, curve) on an intersection curve between two new vertices
CallEdgeNew ==
    /\ elem.kind = "none"
    /\ \E q \in {Pt(2, 0, 0), Pt(2, 2, 0)} :
        /\ elem' = [kind |-> "edge", u |-> "geom",
                    val |-> NewEdge(nextId + 2, NewVertex(nextId, Origin),
                                    NewVertex(nextId + 1, q), IntersectionCurve(Origin, q))]
        /\ nextId' = nextId + 3
        /\ prev' = elem
        /\ call' = [NoCall EXCEPT !.op = "Edge::new"]

Vectors == {<<2, 0, 0>>, <<0, 2, 0>>, <<0, 0, 2>>}

\* the kind of cell a sweep makes of a cell
Swept(kind) ==
    IF kind = "vertex" THEN "edge" ELSE IF kind = "edge" THEN "face"
    ELSE IF kind = "wires" THEN "shell" ELSE "solid"

CallTsweep ==
    /\ elem.u = "geom"
    /\ \/ elem.kind \in {"vertex", "edge", "face"}
       \/ elem.kind = "wires" /\ Len(elem.val) = 1 /\ OnLattice(elem.val[1])
    /\ \E vector \in Vectors :
        \E r \in {tsweep(IF elem.kind = "wires" THEN [kind |-> "wire", val |-> elem.val[1]]
                         ELSE elem, vector, nextId)} :
            /\ elem' = [kind |-> IF r.kind = "panic" THEN "panic" ELSE Swept(elem.kind),
                        u |-> "geom", val |-> r.val]
            /\ nextId' = r.n
            /\ prev' = elem
            /\ call' = [NoCall EXCEPT !.op = "tsweep", !.m = TranslationMaps(vector)]

CallRsweep ==
    /\ elem.u = "geom"
    /\ \/ elem.kind = "vertex"
       \/ elem.kind = "wires" /\ Len(elem.val) = 1 /\ OnLattice(elem.val[1])
    /\ \E angle \in Angles, axis \in Axes :
        \E r \in {rsweep(IF elem.kind = "vertex" THEN elem
                           ELSE [kind |-> "wire", val |-> elem.val[1]],
                           Origin, axis, angle, nextId)} :
            /\ elem' = IF elem.kind = "vertex"
                       THEN [kind |-> "wires", u |-> "geom", val |-> <<r.val>>]
                       ELSE [kind |-> "shell", u |-> "geom", val |-> r.val]
            /\ nextId' = r.n
            /\ prev' = elem
            /\ call' = [NoCall EXCEPT !.op = "rsweep", !.axis = axis, !.angle = angle]

\* the wires cone is called on: the wire drawn so far, or Wire::new()
ConeWires ==
    IF elem.kind = "none" THEN {<<>>}
    ELSE IF elem.u = "geom" /\ elem.kind = "wires" /\ Len(elem.val) = 1 /\ OnLattice(elem.val[1])
    THEN {elem.val[1]}
    ELSE {}

CallCone ==
    \E wire \in ConeWires, angle \in Angles, axis \in Axes :
        \E r \in {cone(wire, axis, angle, nextId)} :
            /\ elem' = [kind |-> "shell", u |-> "geom", val |-> r.val]
            /\ nextId' = r.n
            /\ prev' = [kind |-> "wires", u |-> "geom", val |-> <<wire>>]
            /\ call' = [NoCall EXCEPT !.op = "cone", !.axis = axis, !.angle = angle,
                                      !.ok = r.ok]

\* every control point of every curve of the wire is a lattice point
LatticeCurves(w) ==
    /\ OnLattice(w)
    /\ \A i \in 1..Len(w) : w[i].curve.k = "Arc" => w[i].curve.ang % PI = 0

CallTryAttachPlane ==
    /\ elem.u = "geom"
    /\ elem.kind = "wires"
    /\ \A i \in 1..Len(elem.val) : LatticeCurves(elem.val[i])
    /\ \E r \in {try_attach_plane(elem.val, nextId)} :
           /\ elem' = [kind |-> r.kind, u |-> "geom", val |-> r.val]
           /\ nextId' = r.n
    /\ prev' = elem
    /\ call' = [NoCall EXCEPT !.op = "try_attach_plane"]

Next ==
    \/ CallVertexNew
    \/ CallVertexSweep
    \/ CallInverse
    \/ CallEdgeSweep
    \/ CallWireFrom
    \/ CallWireSweep
    \/ CallFaceNew
    \/ CallFaceSweep
    \/ CallShellFrom
    \/ CallShellPush
    \/ CallShellInvert
    \/ CallShellSweep
    \/ CallBuilderVertex
    \/ CallLines
    \/ CallEdgeNew
    \/ CallTsweep
    \/ CallRsweep
    \/ CallCone
    \/ CallTryAttachPlane

Spec == Init /\ [][Next]_vars

(***************************************************************************)
(* The claims.                                                             *)
(***************************************************************************)
\* the boundary wire of face i of a shell of one-wire faces
Bdry(shell, i) == Boundaries(shell[i])[1]

\* C1: the solid returned by Face::sweep has one boundary shell, and that
\* shell is closed and oriented: every edge id in it is referenced by exactly
\* two face boundaries, once in each sense, so the number of distinct edge
\* ids is half the number of edge references.
C1_FaceSweepClosedShell ==
    call.op = "Face::sweep" =>
        /\ Len(elem.val) = 1
        /\ ShellClosed(elem.val[1])
        /\ 2 * Cardinality(EdgeIds(ShellEdges(elem.val[1]))) = Len(ShellEdges(elem.val[1]))

C1_Witness ==
    /\ call.op = "Face::sweep"
    /\ Len(prev.val.bnd) = 2
    /\ ~prev.val.ori

\* C2: the shell of the solid returned by Face::sweep is the input face
\* inverted, then one side face per boundary edge of the input face in
\* boundary order, then the mapped face carrying the mapped surface; it has
\* 2 + (number of boundary edges) faces.
C2_FaceSweepOrder ==
    call.op = "Face::sweep" =>
        LET shell == elem.val[1]
            f == prev.val
            es == Flatten(Boundaries(f))
        IN  /\ Len(shell) = 2 + Len(es)
            /\ shell[1].id = f.id /\ shell[1].ori # f.ori
            /\ shell[1] = FaceInverse(f)
            /\ \A i \in 1..Len(es) :
                /\ Bdry(shell, 1 + i)[1] = es[i]
                /\ shell[1 + i].id \notin {shell[1].id, shell[Len(shell)].id}
            /\ shell[Len(shell)].surf = MapSurface(call.m, f.surf)
            /\ shell[Len(shell)].id # f.id
            /\ shell[Len(shell)].ori = f.ori
            /\ Len(shell[Len(shell)].bnd) = Len(f.bnd)

C2_Witness ==
    /\ call.op = "Face::sweep"
    /\ Len(elem.val[1]) = 6
    /\ prev.val.ori
    /\ call.m.ds # 0

\* C3: Edge::sweep of an edge e (front a, back b) returns a face with one
\* boundary wire of 4 edges forming a closed loop: e itself; the bridge from
\* b to the mapped back with the curve connect_points(b, map(b)); the image
\* of e run from the mapped back to the mapped front, storing the mapped
\* curve; the inverse of the bridge from a to the mapped front, storing
\* connect_points(a, map(a)); the surface is connect_curves(e.curve,
\* map(e.curve)).
C3_EdgeSweepQuad ==
    call.op = "Edge::sweep" =>
        LET e == prev.val
            m == call.m
            a == EdgeFront(e)
            b == EdgeBack(e)
            w == elem.val.bnd[1]
        IN  /\ Len(elem.val.bnd) = 1 /\ elem.val.ori
            /\ Len(w) = 4
            /\ WireContinuous(w) /\ WireClosed(w)
            /\ w[1] = e
            /\ EdgeFront(w[2]) = b
            /\ EdgeBack(w[2]).pt = MapPt(m, b.pt)
            /\ EdgeBack(w[2]).id \notin {a.id, b.id}
            /\ w[2].curve = ConnectPoints(m, b.pt, MapPt(m, b.pt))
            /\ EdgeFront(w[3]) = EdgeBack(w[2])
            /\ EdgeBack(w[3]).pt = MapPt(m, a.pt)
            /\ EdgeBack(w[3]).id \notin {a.id, b.id, EdgeBack(w[2]).id}
            /\ w[3].curve = MapCurve(m, e.curve)
            /\ w[3].ori # e.ori
            /\ EdgeFront(w[4]) = EdgeBack(w[3])
            /\ EdgeBack(w[4]) = a
            /\ ~w[4].ori
            /\ w[4].curve = ConnectPoints(m, a.pt, MapPt(m, a.pt))
            /\ Cardinality({w[i].id : i \in 1..4}) = 4
            /\ elem.val.surf = ConnectCurves(m, e.curve, MapCurve(m, e.curve))

C3_Witness ==
    /\ call.op = "Edge::sweep"
    /\ ~prev.val.ori
    /\ call.m.kp = 10

\* C4: Vertex::sweep of a vertex v returns a new edge whose front is v
\* itself, whose back is a fresh vertex carrying map(v.point) and whose curve
\* is connect_points(v.point, map(v.point)); the curve and surface mappings
\* and the curve connector leave no trace in it.
C4_VertexSweepBridge ==
    call.op = "Vertex::sweep" =>
        LET v == prev.val
            m == call.m
            e == elem.val
        IN  /\ e.ori
            /\ EdgeFront(e) = v
            /\ EdgeBack(e).id # v.id /\ EdgeBack(e).id >= v.id + 1
            /\ EdgeBack(e).pt = MapPt(m, v.pt)
            /\ e.id \notin {v.id, EdgeBack(e).id}
            /\ e.curve = ConnectPoints(m, v.pt, MapPt(m, v.pt))
            /\ \A m2 \in UsizeMaps :
                (m2.dp = m.dp /\ m2.kp = m.kp) => Vertex_sweep(v, m2, v.id + 1).val = e

C4_Witness ==
    /\ call.op = "Vertex::sweep"
    /\ call.m.dc # 0
    /\ call.m.kp # 0

\* C5: in the shell returned by Wire::sweep, for every two consecutive wire
\* edges i and i+1, boundary[1] of face i and boundary[3] of face i+1 are the
\* same bridge edge (one id) in opposite senses; in a closed wire the same
\* holds between the last face and face 0; one bridge edge is created per
\* wire vertex.
SharedBridge(shell, i, j) ==
    /\ Bdry(shell, i)[2].id = Bdry(shell, j)[4].id
    /\ Bdry(shell, i)[2].ori # Bdry(shell, j)[4].ori
    /\ Bdry(shell, i)[2] = EdgeInverse(Bdry(shell, j)[4])

C5_WireSweepSharedBridges ==
    call.op = "Wire::sweep" =>
        LET w == prev.val[1]
            shell == elem.val
        IN  /\ Len(shell) = Len(w)
            /\ \A i \in 1..(Len(w) - 1) :
                EdgeBack(w[i]).id = EdgeFront(w[i + 1]).id => SharedBridge(shell, i, i + 1)
            /\ (Len(w) > 1 /\ WireClosed(w)) => SharedBridge(shell, Len(w), 1)
            /\ Cardinality({Bdry(shell, i)[k].id : i \in 1..Len(w), k \in {2, 4}})
                 = Cardinality(WireVertexIds(w))

C5_Witness ==
    /\ call.op = "Wire::sweep"
    /\ Len(prev.val[1]) = 3
    /\ WireClosed(prev.val[1])
    /\ ~prev.val[1][2].ori

\* the number of stages of the last rsweep or cone, and the wire it swept
Slices == IF Abs(call.angle) < PI THEN 1 ELSE 2
Whole == Abs(call.angle) >= 2 * PI

\* C6: rsweep chooses its mode from |angle| alone: below pi one stage turning
\* by angle, not closed; from pi up to but excluding 2 pi two stages turning
\* by angle / 2 each, not closed; from 2 pi on a closed sweep of two stages
\* turning by pi each, about the negated axis when angle is negative.
C6_RsweepModes ==
    call.op = "rsweep" =>
        LET a == call.angle
            isv == prev.kind = "vertex"
            n == IF isv THEN 1 ELSE Len(prev.val[1])
            out == IF isv THEN elem.val[1] ELSE elem.val
            \* the bridges drawn by the point connector, and the two vertices of each
            bridge(i) == IF isv THEN out[i] ELSE Bdry(out, i)[2]
            arc(i) == bridge(i).curve
            turned(i, ax, ang) ==
                EdgeBack(bridge(i)).pt = Rotated(EdgeFront(bridge(i)).pt, Origin, ax, ang)
            \* the ceiling of the last stage is the element swept
            closed == IF isv THEN EdgeBack(out[Len(out)]).id = prev.val.id
                      ELSE \A j \in 1..n :
                              Bdry(out, Len(out) - n + j)[3].id = prev.val[1][j].id
        IN  /\ Abs(a) < PI =>
                /\ Len(out) = n /\ ~closed
                /\ \A i \in 1..Len(out) :
                    arc(i).ang = a /\ arc(i).axis = call.axis /\ turned(i, call.axis, a)
            /\ (PI <= Abs(a) /\ Abs(a) < 2 * PI) =>
                /\ Len(out) = 2 * n /\ ~closed
                /\ \A i \in 1..Len(out) :
                    2 * arc(i).ang = a /\ arc(i).axis = call.axis
                        /\ turned(i, call.axis, a \div 2)
            /\ Abs(a) >= 2 * PI =>
                /\ Len(out) = 2 * n /\ closed
                /\ \A i \in 1..Len(out) :
                    LET ax == IF a < 0 THEN VecNeg(call.axis) ELSE call.axis
                    IN  arc(i).ang = PI /\ arc(i).axis = ax /\ turned(i, ax, PI)

C6_Witness ==
    /\ call.op = "rsweep"
    /\ call.angle = -2 * PI
    /\ prev.kind = "wires"
    /\ Len(prev.val[1]) = 2

\* C7: a whole rsweep closes on itself: the ceiling of the last stage is the
\* element swept, by id.  Of a vertex v it is a closed wire of 2 edges whose
\* last edge ends at v itself; of a closed wire it is a closed shell of side
\* faces only, every edge id referenced exactly twice in opposite senses.
C7_WholeRsweepCloses ==
    (call.op = "rsweep" /\ Whole) =>
        IF prev.kind = "vertex"
        THEN LET w == elem.val[1]
             IN  /\ Len(elem.val) = 1 /\ Len(w) = 2
                 /\ WireContinuous(w) /\ WireClosed(w)
                 /\ EdgeFront(w[1]) = prev.val
                 /\ EdgeBack(w[2]) = prev.val
                 /\ EdgeBack(w[1]).id # prev.val.id
                 /\ w[1].id # w[2].id
        ELSE LET w == prev.val[1]
                 shell == elem.val
             IN  /\ Len(shell) = 2 * Len(w)
                 /\ \A j \in 1..Len(w) :
                     /\ Bdry(shell, j)[1] = w[j]
                     /\ Bdry(shell, Len(w) + j)[3] = EdgeInverse(w[j])
                 /\ \A i \in 1..Len(shell) :
                     /\ Len(shell[i].bnd) = 1 /\ Len(Bdry(shell, i)) = 4
                     /\ WireContinuous(Bdry(shell, i)) /\ WireClosed(Bdry(shell, i))
                 /\ WireClosed(w) =>
                     /\ ShellClosed(shell)
                     /\ 2 * Cardinality(EdgeIds(ShellEdges(shell))) = Len(ShellEdges(shell))

C7_Witness ==
    /\ call.op = "rsweep" /\ Whole
    /\ prev.kind = "wires"
    /\ Len(prev.val[1]) = 3 /\ WireClosed(prev.val[1])
    /\ prev.val[1][1].v0.pt.x # 0

\* the wire the last cone swept has ConeLen edges (the only edge of a wire
\* is cut in two when its back is on the axis too)
BackOnAxis ==
    /\ prev.val[1] # <<>>
    /\ so_small(Cross(PtSub(EdgeBack(prev.val[1][Len(prev.val[1])]).pt,
                         EdgeFront(prev.val[1][1]).pt), call.axis))
ConeLen == IF Len(prev.val[1]) = 1 /\ BackOnAxis THEN 2 ELSE Len(prev.val[1])
ApexFaces ==
    IF ConeLen = 0 THEN {}
    ELSE {i * ConeLen + 1 : i \in 0..(Slices - 1)}
            \cup (IF BackOnAxis THEN {(i + 1) * ConeLen : i \in 0..(Slices - 1)} ELSE {})

\* C8: every face of cone(wire, axis, angle) that touches an apex has a
\* boundary of exactly 3 edges forming a closed loop, while the faces of
\* rsweep(wire, front point, axis, angle) have boundaries of 4 edges.
C8_ConeTriangles ==
    call.op = "cone" =>
        /\ call.ok
        /\ Len(elem.val) = Slices * ConeLen
        /\ \A idx \in ApexFaces :
            /\ Len(elem.val[idx].bnd) = 1
            /\ Len(Bdry(elem.val, idx)) = 3
            /\ WireContinuous(Bdry(elem.val, idx)) /\ WireClosed(Bdry(elem.val, idx))
        /\ LET irregular == rsweep([kind |-> "wire", val |-> prev.val[1]],
                                   EdgeFront(prev.val[1][1]).pt, call.axis, call.angle, nextId).val
           IN  \A idx \in 1..Len(irregular) : Len(Bdry(irregular, idx)) = 4

\* C9: for a wire whose front and back vertices both lie on the axis, cone
\* with |angle| >= 2 pi returns a closed shell: every edge id is referenced by
\* exactly two faces in opposite senses and every face boundary is a closed
\* wire.
C9_WholeConeClosed ==
    (call.op = "cone" /\ Whole /\ BackOnAxis) =>
        /\ call.ok
        /\ ShellClosed(elem.val)
        /\ \A i \in 1..Len(elem.val) :
            WireContinuous(Bdry(elem.val, i)) /\ WireClosed(Bdry(elem.val, i))

\* some wire of the list try_attach_plane was given is open
SomeOpenWire == \E i \in 1..Len(prev.val) : ~WireClosed(prev.val[i])

\* C10 as claimed: try_attach_plane on a list of wires containing an open
\* wire fails with FromTopology(NotClosedWire), wherever the points of the
\* wires are.
C10_OpenWireAlwaysNotClosed ==
    (call.op = "try_attach_plane" /\ SomeOpenWire) =>
        elem.kind = "error" /\ elem.val = FromTopology("NotClosedWire")

\* C10 as amended: try_attach_plane on a list of non-empty simple wires
\* containing an open wire fails: with FromTopology(NotClosedWire) when the
\* plane fit over the control points succeeds, with WireNotInOnePlane when
\* it does not.
C10_OpenWireFails ==
    (call.op = "try_attach_plane" /\ SomeOpenWire) =>
        /\ elem.kind = "error"
        /\ attach_plane(WirePoints(prev.val)).some => elem.val = FromTopology("NotClosedWire")
        /\ ~attach_plane(WirePoints(prev.val)).some => elem.val = WireNotInOnePlane

C10_Witness ==
    /\ call.op = "try_attach_plane" /\ SomeOpenWire
    /\ Len(prev.val) = 2
    /\ WireClosed(prev.val[1])
    /\ attach_plane(WirePoints(prev.val)).some


\* every wire of the list try_attach_plane was given is closed
AllClosed == \A i \in 1..Len(prev.val) : WireClosed(prev.val[i])

\* the control points of the oriented curves of all edges of the wires given
FitPoints ==
    UNION {UNION {Range(ControlPoints(oriented_curve(prev.val[i][j]))) :
                    j \in 1..Len(prev.val[i])} : i \in 1..Len(prev.val)}

\* s lies in the plane through p, q and r
InPlaneOf(p, q, r, s) == Dot(Cross(PtSub(q, p), PtSub(r, p)), PtSub(s, p)) = 0

\* there is one and only one plane through all the points of S
OnePlane(S) ==
    \E p, q, r \in S : ~Collinear(p, q, r) /\ \A s \in S : InPlaneOf(p, q, r, s)

\* C11: try_attach_plane on closed wires returns WireNotInOnePlane exactly
\* when no single plane passes through the control points of the oriented
\* curves of all edges; otherwise it returns a face whose boundary wires are
\* the wires given, edge by edge, on a plane through all those points.  The
\* wires given are the ones the face holds: none is altered.
C11_ClosedWiresPlaneOrFace ==
    (call.op = "try_attach_plane" /\ AllClosed) =>
        /\ ~OnePlane(FitPoints) <=> (elem.kind = "error" /\ elem.val = WireNotInOnePlane)
        /\ OnePlane(FitPoints) =>
            /\ elem.kind = "face"
            /\ elem.val.ori
            /\ elem.val.bnd = prev.val
            /\ Boundaries(elem.val) = prev.val
            /\ elem.val.surf.k = "Plane"
            /\ ~elem.val.surf.inv
            /\ ~Collinear(elem.val.surf.pts[1], elem.val.surf.pts[2], elem.val.surf.pts[3])
            /\ \A s \in FitPoints :
                InPlaneOf(elem.val.surf.pts[1], elem.val.surf.pts[2], elem.val.surf.pts[3], s)
            /\ elem.val.id \notin EdgeIds(Flatten(prev.val))

C11_Witness ==
    /\ call.op = "try_attach_plane" /\ AllClosed
    /\ elem.kind = "face"
    /\ Len(prev.val) = 2
    /\ ~prev.val[1][1].ori

\* the element given to the last tsweep has an edge carrying an intersection
\* curve
HasIntersectionCurve == prev.kind = "edge" /\ prev.val.curve.k = "IntersectionCurve"

\* C12: tsweep of an element that has an edge carrying an intersection curve
\* returns the error Unimplemented as a value: the call does not panic.
C12_TsweepUnimplementedIsValue ==
    (call.op = "tsweep" /\ HasIntersectionCurve) =>
        /\ elem.kind # "panic"
        /\ elem.kind = "error"
        /\ elem.val = "Unimplemented"

\* the last tsweep swept a face with one boundary of four edges, as the
\* tsweep of the tsweep of a vertex is
SquareSwept ==
    /\ call.op = "tsweep"
    /\ prev.kind = "face"
    /\ Len(prev.val.bnd) = 1 /\ Len(prev.val.bnd[1]) = 4

\* C14: the tsweep of the square face made by two tsweeps of a vertex is a
\* solid with one boundary shell of 6 faces, 12 distinct edge ids and 8
\* distinct vertex ids; the first face is the square inverted, and its
\* boundary visits the vertices of the square in the reverse of the order in
\* which the square's boundary visits them, from the same first vertex.
C14_CubeByTsweeps ==
    SquareSwept =>
        /\ elem.kind = "solid"
        /\ Len(elem.val) = 1
        /\ LET shell == elem.val[1]
               base == Boundaries(prev.val)[1]
               first == Bdry(shell, 1)
           IN  /\ Len(shell) = 6
               /\ Cardinality(EdgeIds(ShellEdges(shell))) = 12
               /\ Cardinality(WireVertexIds(ShellEdges(shell))) = 8
               /\ shell[1].id = prev.val.id /\ shell[1].ori # prev.val.ori
               /\ Len(first) = 4
               /\ \A i \in 1..4 : EdgeFront(first[i]) = EdgeFront(base[((5 - i) % 4) + 1])

C14_Witness ==
    /\ SquareSwept
    /\ elem.kind = "solid"
    /\ call.m.v = <<0, 0, 2>>
    /\ prev.val.surf.pts = <<Pt(0, 0, 0), Pt(2, 0, 0), Pt(0, 2, 0)>>
    /\ [i \in 1..4 |-> EdgeFront(Bdry(elem.val[1], 1)[i]).pt]
         = <<Pt(0, 0, 0), Pt(0, 2, 0), Pt(2, 2, 0), Pt(2, 0, 0)>>

(***************************************************************************)
(* C13: Shell::sweep returns one entry per connected component.            *)
(***************************************************************************)
\* a component that can be extruded: every edge is held by one face, or by
\* two in opposite senses (oriented), and some edge by one only (not closed)
Extrudable(shell) ==
    LET Fits(es) ==
            /\ \A id \in EdgeIds(es) :
                   \/ Cardinality(RefsOf(es, id)) = 1
                   \/ /\ Cardinality(RefsOf(es, id)) = 2
                      /\ \E i, j \in RefsOf(es, id) : es[i].ori # es[j].ori
            /\ \E id \in EdgeIds(es) : Cardinality(RefsOf(es, id)) = 1
    IN  Fits(ShellEdges(shell))

\* an entry without the identities of its cells
EntryShape(entry) ==
    IF entry.kind = "error" THEN <<entry.val>>
    ELSE [i \in 1..Len(entry.val[1]) |->
             LET f == entry.val[1][i]
             IN  [surf |-> f.surf, ori |-> f.ori,
                  bnd |-> [w \in 1..Len(f.bnd) |->
                              [j \in 1..Len(f.bnd[w]) |->
                                  [curve |-> f.bnd[w][j].curve, ori |-> f.bnd[w][j].ori,
                                   p0 |-> f.bnd[w][j].v0.pt, p1 |-> f.bnd[w][j].v1.pt]]]]]

PerComponent(shell, comps, m) ==
    \* the components are the classes of the faces under vertex sharing
    /\ \A i \in 1..Len(comps) : comps[i] # <<>> /\ ShellConnected(comps[i])
    /\ Len(Flatten(comps)) = Len(shell)
    /\ Range(Flatten(comps)) = Range(shell)
    /\ \A i, j \in 1..Len(comps) :
           i # j => WireVertexIds(ShellEdges(comps[i])) \cap WireVertexIds(ShellEdges(comps[j])) = {}
    \* one entry for each, the one the component gives when swept alone
    /\ Len(elem.val) = Len(comps)
    /\ \A i \in 1..Len(comps) :
        \E alone \in {Shell_sweep(comps[i], m, nextId).val} :
           /\ Len(alone) = 1
           /\ elem.val[i].kind = alone[1].kind
           /\ EntryShape(elem.val[i]) = EntryShape(alone[1])
           /\ elem.val[i].kind = "solid" <=> Extrudable(comps[i])
           /\ elem.val[i].kind = "solid" =>
                  /\ Len(elem.val[i].val) = 1
                  /\ ShellClosed(elem.val[i].val[1])
                  /\ \A k \in 1..Len(comps[i]) :
                         elem.val[i].val[1][k] = FaceInverse(comps[i][k])

\* C13: after Shell::sweep the result holds exactly one entry for each
\* connected component of the shell, in the order of the components; entry i
\* is a solid exactly when component i is oriented and not closed, it is
\* what sweeping component i alone gives, and a solid entry is a closed
\* shell that begins with the inverted faces of its component, whatever the
\* other entries are.
C13_ShellSweepPerComponent ==
    call.op = "Shell::sweep" => PerComponent(prev.val, connected_components(prev.val), call.m)

\* a shell of two components, one extruded to a solid and one refused
C13_Witness ==
    /\ call.op = "Shell::sweep"
    /\ Len(elem.val) = 2
    /\ \E i, j \in 1..2 : elem.val[i].kind = "solid" /\ elem.val[j].kind = "error"
    /\ Len(prev.val) >= 3

(***************************************************************************)
(* C18: the fourth boundary edge of the face of connect_edges.             *)
(***************************************************************************)
\* the boundary wire of the face of the last Edge::sweep, as stored
SweptQuad == elem.val.bnd[1]

\* C18 as stated: after Edge::sweep of e0, with e1 the image of e0, the
\* fourth boundary edge of the face is an edge created from e1.front to
\* e0.front, and its stored curve is CP(e1.front.point, e0.front.point).
C18_FourthEdgeFromImageFront ==
    call.op = "Edge::sweep" =>
        \E e1 \in {EdgeInverse(SweptQuad[3])} :
            /\ SweptQuad[4].v0.id = EdgeFront(e1).id
            /\ SweptQuad[4].v1.id = EdgeFront(prev.val).id
            /\ SweptQuad[4].curve
                   = ConnectPoints(call.m, EdgeFront(e1).pt, EdgeFront(prev.val).pt)

\* C18 amended: after Edge::sweep of e0, with e1 the image of e0, the fourth
\* boundary edge of the face is the inverse of an edge created from e0.front
\* to e1.front: it is traversed from e1.front to e0.front, and its stored
\* curve is CP(e0.front.point, e1.front.point).
C18_FourthEdgeInverseOfFrontBridge ==
    call.op = "Edge::sweep" =>
        \E e1 \in {EdgeInverse(SweptQuad[3])} :
            /\ ~SweptQuad[4].ori
            /\ SweptQuad[4].v0.id = EdgeFront(prev.val).id
            /\ SweptQuad[4].v1.id = EdgeFront(e1).id
            /\ EdgeFront(SweptQuad[4]).id = EdgeFront(e1).id
            /\ EdgeBack(SweptQuad[4]).id = EdgeFront(prev.val).id
            /\ SweptQuad[4].curve
                   = ConnectPoints(call.m, EdgeFront(prev.val).pt, EdgeFront(e1).pt)
            /\ SweptQuad[4].id \notin {prev.val.id, e1.id, SweptQuad[2].id}

\* as in the doctest of Edge::sweep: the front of the edge holds the point 1,
\* the front of its image the point 3, and the fourth boundary edge holds
\* the curve 13, not 31
C18_Witness ==
    /\ call.op = "Edge::sweep"
    /\ call.m.kp = 10 /\ call.m.dp = 2
    /\ prev.val.ori
    /\ prev.val.v0.pt = 1
    /\ EdgeFront(SweptQuad[4]).pt = 3 /\ EdgeBack(SweptQuad[4]).pt = 1
    /\ SweptQuad[4].curve = 13

(***************************************************************************)
(* C16: the fan of front-apex faces of a whole cone.                       *)
(***************************************************************************)
\* the boundary of the front-apex face of slice i of the last cone
FrontApexOf(i) == Bdry(elem.val, i * ConeLen + 1)

\* C16: after cone with |angle| >= 2 pi, for a wire of any number of edges,
\* the first boundary edge of the front-apex face of every slice after the
\* first is the third boundary edge of the front-apex face of the slice
\* before it, in the opposite sense; and the third boundary edge of the
\* front-apex face is the inverse of the first boundary edge of shell[0] in
\* the last slice and in no other.
C16_FanClosesInLastSlice ==
    (call.op = "cone" /\ Whole /\ prev.val[1] # <<>>) =>
        /\ Len(elem.val) = Slices * ConeLen
        /\ \A i \in 0..(Slices - 1) :
            /\ Len(FrontApexOf(i)) = 3
            /\ i > 0 => FrontApexOf(i)[1] = EdgeInverse(FrontApexOf(i - 1)[3])
            /\ (FrontApexOf(i)[3] = EdgeInverse(FrontApexOf(0)[1])) <=> (i = Slices - 1)

(***************************************************************************)
(* C17: the split of the only edge of a wire with both ends on the axis.   *)
(***************************************************************************)
\* the curve of the edge e in its sense runs between the points of its
\* front and back vertices
CurveFits(e) ==
    /\ CurveFront(oriented_curve(e)) = EdgeFront(e).pt
    /\ CurveBack(oriented_curve(e)) = EdgeBack(e).pt

\* C17: after cone of a wire of one edge whose back vertex lies on the axis,
\* the shell stands on two edges: the first runs from the front vertex of
\* the given edge to a new vertex, the second from that vertex to the back
\* vertex of the given edge, and the curve of each, in the sense of the
\* edge, starts at the point of its front vertex and ends at the point of
\* its back vertex, whether the given handle was forward or inverted.
C17_SplitEdgeKeepsEnds ==
    (call.op = "cone" /\ Len(prev.val[1]) = 1 /\ BackOnAxis) =>
        /\ Len(elem.val) = 2 * Slices
        /\ \E e \in {prev.val[1][1]}, a \in {Bdry(elem.val, 1)[1]}, b \in {Bdry(elem.val, 2)[1]} :
            /\ EdgeFront(a).id = EdgeFront(e).id
            /\ EdgeBack(b).id = EdgeBack(e).id
            /\ EdgeBack(a).id = EdgeFront(b).id
            /\ EdgeBack(a).id \notin {e.v0.id, e.v1.id}
            /\ Cardinality({a.id, b.id, e.id}) = 3
            /\ CurveFits(a) /\ CurveFits(b)

(***************************************************************************)
(* C19: the order of the faces of the rsweep of a wire.                    *)
(***************************************************************************)
\* the rotation of one stage of the last rsweep
StageMaps ==
    IF Whole
    THEN RotationMaps(Origin, IF call.angle > 0 THEN call.axis ELSE VecNeg(call.axis), PI)
    ELSE RotationMaps(Origin, call.axis, call.angle \div Slices)

\* the curve c and the point p after i stages
RECURSIVE StageCurve(_, _)
StageCurve(c, i) == IF i = 0 THEN c ELSE MapCurve(StageMaps, StageCurve(c, i - 1))
RECURSIVE StagePoint(_, _)
StagePoint(p, i) == IF i = 0 THEN p ELSE MapPt(StageMaps, StagePoint(p, i - 1))

StageMajor(w, shell) ==
    /\ Len(shell) = Len(w) * Slices
    /\ \A i \in 0..(Slices - 1), j \in 1..Len(w) :
        \E first \in {Bdry(shell, i * Len(w) + j)[1]} :
            /\ Len(Bdry(shell, i * Len(w) + j)) = 4
            \* stage 0 stands on the edges of the wire
            /\ i = 0 => first = w[j]
            \* a later stage on the edges the stage before it ended on
            /\ i > 0 => first = EdgeInverse(Bdry(shell, (i - 1) * Len(w) + j)[3])
            \* and these are the images of edge j
            /\ first.ori = w[j].ori
            /\ first.curve = StageCurve(w[j].curve, i)
            /\ first.v0.pt = StagePoint(w[j].v0.pt, i)
            /\ first.v1.pt = StagePoint(w[j].v1.pt, i)
            /\ i > 0 => first.id # w[j].id
            \* the faces of a stage stand on different edges
            /\ \A j2 \in 1..Len(w) :
                   j2 # j /\ w[j2].id # w[j].id => Bdry(shell, i * Len(w) + j2)[1].id # first.id

\* C19: after rsweep of a wire of n edges in d stages the shell holds n * d
\* faces, and the face at (0-based) index i * n + j has four boundary edges
\* of which the first is edge j of the wire for i = 0 and, for i > 0, the
\* image of edge j after i stages: the edge on which the face of the stage
\* before ended, carrying the curve and the points of edge j turned i times.
C19_RsweepStageMajor ==
    (call.op = "rsweep" /\ prev.kind = "wires") => StageMajor(prev.val[1], elem.val)

\* two stages over a wire of at least two edges
C19_Witness ==
    /\ call.op = "rsweep" /\ prev.kind = "wires"
    /\ Slices = 2 /\ Len(prev.val[1]) >= 2
    /\ Len(elem.val) = 2 * Len(prev.val[1])
    /\ Bdry(elem.val, Len(prev.val[1]) + 2)[1].curve # prev.val[1][2].curve

(***************************************************************************)
(* C20: cone leaves the faces of the rsweep that touch no apex alone.      *)
(***************************************************************************)
\* the rsweep under the last cone: of the wire given, split where cone
\* splits it, about the front point of the wire; the identities it gives
\* out follow those of the wire
RsweepUnder ==
    LET w == prev.val[1]
        ids == WireVertexIds(w) \cup EdgeIds(w)
        n0 == 1 + CHOOSE x \in ids : \A y \in ids : y <= x
        Turned(split) ==
            rsweep([kind |-> "wire", val |-> split.val], EdgeFront(w[1]).pt,
                   call.axis, call.angle, split.n).val
    IN  Turned(IF Len(w) = 1 /\ BackOnAxis THEN SplitEdge(w[1], n0) ELSE [val |-> w, n |-> n0])

FrontApexFaces == {i * ConeLen + 1 : i \in 0..(Slices - 1)}
BackApexFaces == IF BackOnAxis THEN {(i + 1) * ConeLen : i \in 0..(Slices - 1)} ELSE {}

OnlyApexFacesChanged(under) ==
    /\ Len(elem.val) = Len(under)
    /\ Len(under) = Slices * ConeLen
    /\ \A k \in 1..Len(under) :
        IF k \in FrontApexFaces
        THEN /\ oriented_surface(elem.val[k]) = oriented_surface(under[k])
             /\ Bdry(elem.val, k)[2] = Bdry(under, k)[2]
             /\ elem.val[k] # under[k]
        ELSE IF k \in BackApexFaces
        THEN /\ oriented_surface(elem.val[k]) = oriented_surface(under[k])
             /\ Bdry(elem.val, k)[3] = Bdry(under, k)[4]
             /\ elem.val[k] # under[k]
        ELSE elem.val[k] = under[k]

\* C20: after cone the shell has as many faces as the rsweep of the wire
\* (split when cone splits it) about the front point of the wire; a face
\* that stands neither on the first edge of the wire nor, when the back
\* vertex is on the axis, on the last is the face of that rsweep, identity
\* included; a face on the first edge keeps the surface and the second
\* boundary edge of the face it replaces, a face on the last edge the
\* surface and the fourth boundary edge, which becomes its third; and the
\* cone of the empty wire is the empty shell.
C20_ConeChangesOnlyApexFaces ==
    call.op = "cone" =>
        IF prev.val[1] = <<>> THEN elem.val = <<>> /\ call.ok
        ELSE OnlyApexFacesChanged(RsweepUnder)

\* a wire of three edges with both ends on the axis, turned in two stages:
\* the faces on its middle edge are left alone
C20_Witness ==
    /\ call.op = "cone"
    /\ Len(prev.val[1]) = 3 /\ BackOnAxis /\ Slices = 2
    /\ Len(elem.val) = 6
    /\ Len(Bdry(elem.val, 2)) = 4 /\ Len(Bdry(elem.val, 5)) = 4
    /\ Len(Bdry(elem.val, 1)) = 3 /\ Len(Bdry(elem.val, 6)) = 3

(***************************************************************************)
(* C15: rsweep about the axis a by the angle t and about -a by -t.         *)
(***************************************************************************)
\* an arc about -y by t is the arc about y by -t
SameCurve(c) ==
    IF c.k = "Arc" /\ c.axis = VecNeg(unit_y)
    THEN [c EXCEPT !.axis = unit_y, !.ang = -c.ang]
    ELSE c
\* a surface of revolution holds an axis and no angle: about -a it runs the
\* other way round, and its normal is the opposite one
SameSurface(s) == IF s.k = "RevolutedCurve" THEN [s EXCEPT !.c = SameCurve(s.c)] ELSE s
SameEdge(e) == [e EXCEPT !.curve = SameCurve(e.curve)]
SameWire(w) == [i \in 1..Len(w) |-> SameEdge(w[i])]
SameShell(shell) ==
    [i \in 1..Len(shell) |->
        [shell[i] EXCEPT !.surf = SameSurface(shell[i].surf),
                         !.bnd = [j \in 1..Len(shell[i].bnd) |-> SameWire(shell[i].bnd[j])]]]

\* what the last rsweep was called on, and the identity it began with
RsweepElem == IF prev.kind = "vertex" THEN prev ELSE [kind |-> "wire", val |-> prev.val[1]]
RsweepBase ==
    IF prev.kind = "vertex" THEN prev.val.id + 1
    ELSE LET ids == WireVertexIds(prev.val[1]) \cup EdgeIds(prev.val[1])
         IN  1 + CHOOSE x \in ids : \A y \in ids : y <= x
\* the same call with the axis and the angle negated
Mirrored == rsweep(RsweepElem, Origin, VecNeg(call.axis), -call.angle, RsweepBase).val

\* C15: the result of rsweep(elem, o, a, t) is that of rsweep(elem, o, -a, -t)
\* on the same cells: the same number of stages, the same points, the same
\* arcs (an arc about -a by -t being the arc about a by t) and the same
\* surfaces.
C15_RsweepMirrorEqual ==
    call.op = "rsweep" =>
        IF prev.kind = "vertex" THEN SameWire(elem.val[1]) = SameWire(Mirrored)
        ELSE SameShell(elem.val) = SameShell(Mirrored)
====
